---- MODULE Spec2Model ----
(***************************************************************************)
(* A model of the stock analytics pipeline: the signal detector            *)
(* (src/src/trading_signals.py), the indicator and risk engines            *)
(* (src/src/technical_indicators.py), the extraction batch                 *)
(* (src/src/data_extractor.py) and the store wrapper (src/src/database.py).*)
(*                                                                         *)
(* Floating point values are modelled as exact extended rationals: a       *)
(* finite value n/d (d > 0, in lowest terms), +inf, -inf or NaN, with the  *)
(* IEEE-754 rules the code relies on (x/0 = +-inf, 0/0 = NaN, every        *)
(* ordered comparison with NaN false). The sign of zero and rounding       *)
(* error are not modelled.                                                 *)
(***************************************************************************)
EXTENDS Integers, Sequences, FiniteSets, TLC

VARIABLES
    \* --- signal detector on one indicator table ---
    sdf,        \* indicators_df handed to generate_signals_for_ticker
    sticker,    \* the ticker argument of the last call ("" before any call)
    sout,       \* the list the last call returned
    spc,        \* "build" while the table is filled, "done" after the call
    \* --- signal detector run at each successive bar of one history ---
    cdf,        \* the ticker's indicator rows so far, one per bar
    clog,       \* clog[t]: the signal types returned when bar t was the latest
    cpc,        \* "bar": the next bar arrives; "eval": the detector runs
    \* --- risk engine on one indicator table ---
    rdf,        \* the frame handed to calculate_risk_metrics
    rout,       \* the records it returned
    rpc,        \* "ready" before the call, "done" after it
    \* --- indicator engine on one ticker's prices ---
    iclose,     \* the close column handed to _add_indicators
    iout,       \* the indicator rows it returned
    ipc,        \* "ready" before the call, "done" after it
    \* --- one run of run_extraction ---
    xnow,             \* datetime.now() during the run
    xi,               \* index in tickers of the next ticker of the loop
    all_prices,       \* the price frames collected so far
    all_fundamentals, \* the fundamentals frames collected so far
    prices_df,        \* the local prices_df: unbound until it is assigned
    fundamentals_df,  \* the local fundamentals_df, likewise
    xstore,           \* the tables stock_prices and stock_fundamentals
    xlog,             \* what the run did so far: fetches, writes, summary
    xpc,              \* the statement run_extraction is at
    xrun,             \* how many times run_extraction was started
    xfirst,           \* the store and the log as the first run left them
    \* --- one run of run_indicators_pipeline ---
    pstore,           \* the tables stock_prices, technical_indicators, risk_metrics
    pprices,          \* the local prices_df
    p_indicators_df,  \* the local indicators_df
    p_risk_df,        \* the local risk_df
    plog,             \* what the run did so far: writes, steps, summary
    ppc               \* the statement run_indicators_pipeline is at

svars == <<sdf, sticker, sout, spc>>
cvars == <<cdf, clog, cpc>>
rvars == <<rdf, rout, rpc>>
ivars == <<iclose, iout, ipc>>

xvars == <<xnow, xi, all_prices, all_fundamentals, prices_df, fundamentals_df,
           xstore, xlog, xpc, xrun, xfirst>>
pvars == <<pstore, pprices, p_indicators_df, p_risk_df, plog, ppc>>

vars == <<svars, cvars, rvars, ivars, xvars, pvars>>

-----------------------------------------------------------------------------
(* Extended rationals                                                      *)

RECURSIVE Gcd(_, _)
Gcd(a, b) == IF b = 0 THEN a ELSE Gcd(b, a % b)

Abs(x) == IF x < 0 THEN -x ELSE x

NaN  == [k |-> "nan",  n |-> 0, d |-> 1]
PInf == [k |-> "pinf", n |-> 0, d |-> 1]
NInf == [k |-> "ninf", n |-> 0, d |-> 1]

\* n/d for d # 0, in lowest terms with a positive denominator
Q(n, d) ==
    LET g == Gcd(Abs(n), Abs(d))
        s == IF d < 0 THEN -1 ELSE 1
    IN  [k |-> "num", n |-> (s * n) \div g, d |-> (s * d) \div g]

I(n) == [k |-> "num", n |-> n, d |-> 1]

IsNaN(x) == x.k = "nan"
IsFinite(x) == x.k = "num"

\* pd.notna
notna(x) == ~IsNaN(x)

\* -1, 0, 1 for a non-NaN value
Sign(x) ==
    CASE x.k = "pinf" -> 1
      [] x.k = "ninf" -> -1
      [] OTHER -> IF x.n > 0 THEN 1 ELSE IF x.n < 0 THEN -1 ELSE 0

\* ordered comparisons: false as soon as one side is NaN
FLt(a, b) ==
    /\ ~IsNaN(a) /\ ~IsNaN(b)
    /\ CASE a.k = "pinf" -> FALSE
         [] a.k = "ninf" -> b.k # "ninf"
         [] b.k = "pinf" -> TRUE
         [] b.k = "ninf" -> FALSE
         [] OTHER -> a.n * b.d < b.n * a.d

FEq(a, b) == ~IsNaN(a) /\ ~IsNaN(b) /\ a = b
FGt(a, b) == FLt(b, a)
FLe(a, b) == FLt(a, b) \/ FEq(a, b)
FGe(a, b) == FLe(b, a)

\* arithmetic on finite values, denominators joined by their least common
\* multiple so that values on a common grid stay small
Lcm(a, b) == (a \div Gcd(a, b)) * b

FNeg(a) ==
    CASE a.k = "pinf" -> NInf
      [] a.k = "ninf" -> PInf
      [] a.k = "num" -> [a EXCEPT !.n = -a.n]
      [] OTHER -> a

FAdd(a, b) ==
    CASE IsNaN(a) \/ IsNaN(b) -> NaN
      [] a.k = "pinf" -> IF b.k = "ninf" THEN NaN ELSE PInf
      [] a.k = "ninf" -> IF b.k = "pinf" THEN NaN ELSE NInf
      [] b.k \in {"pinf", "ninf"} -> b
      [] OTHER -> LET l == Lcm(a.d, b.d)
                  IN  Q(a.n * (l \div a.d) + b.n * (l \div b.d), l)

FSub(a, b) == FAdd(a, FNeg(b))

FMul(a, b) ==
    CASE IsNaN(a) \/ IsNaN(b) -> NaN
      [] a.k # "num" \/ b.k # "num" ->
            IF Sign(a) * Sign(b) = 0 THEN NaN
            ELSE IF Sign(a) * Sign(b) > 0 THEN PInf ELSE NInf
      [] OTHER -> LET g1 == Gcd(Abs(a.n), b.d)
                      g2 == Gcd(Abs(b.n), a.d)
                  IN  Q((a.n \div g1) * (b.n \div g2),
                        (a.d \div g2) * (b.d \div g1))

\* a / b with the IEEE results for a zero or infinite divisor
FDiv(a, b) ==
    CASE IsNaN(a) \/ IsNaN(b) -> NaN
      [] a.k # "num" /\ b.k # "num" -> NaN
      [] a.k # "num" ->
            IF Sign(a) * (IF Sign(b) < 0 THEN -1 ELSE 1) > 0 THEN PInf ELSE NInf
      [] b.k # "num" -> I(0)
      [] b.n = 0 ->
            IF a.n = 0 THEN NaN ELSE IF a.n > 0 THEN PInf ELSE NInf
      [] OTHER -> LET g1 == Gcd(Abs(a.n), Abs(b.n))
                      g2 == Gcd(a.d, b.d)
                  IN  Q((a.n \div g1) * (b.d \div g2),
                        (a.d \div g2) * (b.n \div g1))

\* Irrational results are kept as exact expressions in the same record shape:
\*   [k |-> "sqrt",  n, d]   the positive square root of n/d > 0
\*   [k |-> "quot",  n, d]   the quotient of the values n and d, d a square root
\*   [k |-> "round", n, d]   the value d rounded to n decimals
\* the square root of a finite value >= 0 (NaN stays NaN)
FSqrt(x) ==
    IF IsNaN(x) THEN NaN
    ELSE IF x.n = 0 THEN I(0)
    ELSE [k |-> "sqrt", n |-> x.n, d |-> x.d]

\* x * np.sqrt(m) for x a square root, 0 or NaN
TimesSqrt(x, m) ==
    IF x.k = "sqrt" THEN [k |-> "sqrt", n |-> Q(x.n * m, x.d).n, d |-> Q(x.n * m, x.d).d]
    ELSE x

\* x > 0 for x finite, a square root or NaN
IsPositive(x) ==
    CASE x.k = "sqrt" -> TRUE
      [] OTHER -> FGt(x, I(0))

\* a / s for a finite and s a square root
OverSqrt(a, s) ==
    IF a.n = 0 THEN I(0) ELSE [k |-> "quot", n |-> a, d |-> s]

RECURSIVE Pow10(_)
Pow10(e) == IF e = 0 THEN 1 ELSE 10 * Pow10(e - 1)

\* round(x, digits): to the nearest multiple of 10^-digits, ties to even
round(x, digits) ==
    CASE x.k = "num" ->
            LET p  == Pow10(digits)
                ip == x.n \div x.d
                t  == (x.n % x.d) * p
                f  == t \div x.d
                r  == t % x.d
                up == \/ 2 * r > x.d
                      \/ (2 * r = x.d /\ f % 2 = 1)
                g  == f + (IF up THEN 1 ELSE 0)
            IN  IF g = 0 THEN I(ip)
                ELSE IF g = p THEN I(ip + 1)
                ELSE Q(ip * p + g, p)
      [] x.k \in {"sqrt", "quot"} -> [k |-> "round", n |-> digits, d |-> x]
      [] OTHER -> x

-----------------------------------------------------------------------------
(* Signal detector: trading_signals.py                                     *)

RSI_OVERSOLD_BELOW == 30
RSI_OVERBOUGHT_ABOVE == 70
MIN_ROWS == 2

Tickers == {"AAA", "BBB"}

Signal(ticker, signal_date, signal_type, signal_strength) ==
    [ticker |-> ticker, signal_date |-> signal_date,
     signal_type |-> signal_type, signal_strength |-> signal_strength]

\* indicators_df[indicators_df['ticker'] == ticker]
SelectTicker(df, ticker) == SelectSeq(df, LAMBDA r : r.ticker = ticker)

\* .sort_values('date'): ascending by date (dates are unique per ticker)
RECURSIVE InsertByDate(_, _)
InsertByDate(r, s) ==
    IF s = <<>> THEN <<r>>
    ELSE IF r.date < Head(s).date THEN <<r>> \o s
    ELSE <<Head(s)>> \o InsertByDate(r, Tail(s))

RECURSIVE sort_values(_)
sort_values(s) ==
    IF s = <<>> THEN <<>>
    ELSE InsertByDate(Head(s), sort_values(Tail(s)))

\* a plausible slip: the previous bar must hold the strictly opposite ordering
GoldenCrossStrict(latest, previous) ==
    /\ FGt(latest.sma_50, latest.sma_200)
    /\ FLt(previous.sma_50, previous.sma_200)

\* the eight rule conditions, in the order of the source
GoldenCross(latest, previous) ==
    /\ FGt(latest.sma_50, latest.sma_200)
    /\ FLe(previous.sma_50, previous.sma_200)

\* a plausible slip: the two rows are taken the wrong way round
DeathCrossSwapped(latest, previous) ==
    /\ FLt(previous.sma_50, previous.sma_200)
    /\ FGe(latest.sma_50, latest.sma_200)

DeathCross(latest, previous) ==
    /\ FLt(latest.sma_50, latest.sma_200)
    /\ FGe(previous.sma_50, previous.sma_200)

RsiOversold(latest) ==
    notna(latest.rsi_14) /\ FLt(latest.rsi_14, I(RSI_OVERSOLD_BELOW))

RsiOverbought(latest) ==
    notna(latest.rsi_14) /\ FGt(latest.rsi_14, I(RSI_OVERBOUGHT_ABOVE))

MacdBullish(latest, previous) ==
    /\ notna(latest.macd) /\ notna(latest.macd_signal)
    /\ FGt(latest.macd, latest.macd_signal)
    /\ FLe(previous.macd, previous.macd_signal)

MacdBearish(latest, previous) ==
    /\ notna(latest.macd) /\ notna(latest.macd_signal)
    /\ FLt(latest.macd, latest.macd_signal)
    /\ FGe(previous.macd, previous.macd_signal)

BbOversold(latest) ==
    notna(latest.bb_lower) /\ FLt(latest.close, latest.bb_lower)

BbOverbought(latest) ==
    notna(latest.bb_upper) /\ FGt(latest.close, latest.bb_upper)

\* if <cond>: signals.append(<signal>)
AppendIf(signals, cond, signal) ==
    IF cond THEN Append(signals, signal) ELSE signals

\* the list after the eight rule blocks
RuleSignals(ticker, latest, previous) ==
    LET d  == latest.date
        s1 == AppendIf(<<>>, GoldenCross(latest, previous),
                       Signal(ticker, d, "GOLDEN_CROSS", "STRONG"))
        s2 == AppendIf(s1, DeathCross(latest, previous),
                       Signal(ticker, d, "DEATH_CROSS", "STRONG"))
        s3 == AppendIf(s2, RsiOversold(latest),
                       Signal(ticker, d, "RSI_OVERSOLD", "MEDIUM"))
        s4 == AppendIf(s3, RsiOverbought(latest),
                       Signal(ticker, d, "RSI_OVERBOUGHT", "MEDIUM"))
        s5 == AppendIf(s4, MacdBullish(latest, previous),
                       Signal(ticker, d, "MACD_BULLISH", "MEDIUM"))
        s6 == AppendIf(s5, MacdBearish(latest, previous),
                       Signal(ticker, d, "MACD_BEARISH", "MEDIUM"))
        s7 == AppendIf(s6, BbOversold(latest),
                       Signal(ticker, d, "BB_OVERSOLD", "WEAK"))
        s8 == AppendIf(s7, BbOverbought(latest),
                       Signal(ticker, d, "BB_OVERBOUGHT", "WEAK"))
    IN  s8

\* a plausible slip: the NEUTRAL record is appended whatever fired
NeutralAlways(signals, ticker, signal_date) ==
    Append(signals, Signal(ticker, signal_date, "NEUTRAL", "NEUTRAL"))

\* if not signals: signals.append(NEUTRAL)
NeutralIfNone(signals, ticker, signal_date) ==
    IF signals = <<>>
    THEN Append(signals, Signal(ticker, signal_date, "NEUTRAL", "NEUTRAL"))
    ELSE signals

\* a plausible slip: a short history is reported as NEUTRAL
ShortHistoryNeutral(ticker, stock) ==
    <<Signal(ticker, 0, "NEUTRAL", "NEUTRAL")>>

\* if len(stock) < 2: return []
ShortHistory(ticker, stock) == <<>>

generate_signals_for_ticker(ticker, indicators_df) ==
    LET stock == sort_values(SelectTicker(indicators_df, ticker))
    IN  IF Len(stock) < MIN_ROWS
        THEN ShortHistory(ticker, stock)
        ELSE LET latest   == stock[Len(stock)]
                 previous == stock[Len(stock) - 1]
             IN  NeutralIfNone(RuleSignals(ticker, latest, previous),
                               ticker, latest.date)

-----------------------------------------------------------------------------
(* Inputs of the signal detector                                           *)

MaxRows == 2

\* <<sma_50, sma_200>>: below, above, sma_200 not yet defined
SmaChoices == {<<I(1), I(2)>>, <<I(3), I(2)>>, <<I(2), NaN>>}
\* <<macd, macd_signal>>: below, above, undefined
MacdChoices == {<<I(0), I(1)>>, <<I(2), I(1)>>, <<NaN, NaN>>}
\* <<rsi_14, close, bb_lower, bb_upper>>: rsi_14 below 30, on 30, above 70 or
\* undefined; close below the band, on its lower edge, above it, or the band
\* undefined
RsiBbChoices ==
    {<<NaN,   I(2), NaN,  NaN>>,
     <<I(29), I(1), I(1), I(3)>>,
     <<I(71), I(1), I(1), I(3)>>,
     <<I(30), I(0), I(1), I(3)>>,
     <<I(30), I(4), I(1), I(3)>>,
     <<I(29), I(0), I(1), I(3)>>,
     <<I(71), I(4), I(1), I(3)>>}

Row(ticker, date, sma, macd, rb) ==
    [ticker |-> ticker, date |-> date,
     sma_50 |-> sma[1], sma_200 |-> sma[2], rsi_14 |-> rb[1],
     macd |-> macd[1], macd_signal |-> macd[2],
     close |-> rb[2], bb_lower |-> rb[3], bb_upper |-> rb[4]]

\* the table holds a row of another ticker, which carries no rule condition
OtherRow == Row("BBB", 1, <<I(2), NaN>>, <<NaN, NaN>>, <<NaN, I(2), NaN, NaN>>)

Dates == 1 .. MaxRows

DatesOf(df, ticker) ==
    {df[i].date : i \in {j \in DOMAIN df : df[j].ticker = ticker}}

SetMin(S) == CHOOSE x \in S : \A y \in S : x <= y
SetMax(S) == CHOOSE x \in S : \A y \in S : x >= y

IdleSignals == sdf = <<>> /\ sticker = "" /\ sout = <<>> /\ spc = "idle"
IdleCross == cdf = <<>> /\ clog = <<>> /\ cpc = "idle"
IdleRisk == rdf = <<>> /\ rout = <<>> /\ rpc = "idle"
IdleIndicators == iclose = <<>> /\ iout = <<>> /\ ipc = "idle"
IdleExtraction ==
    /\ xnow = 0 /\ xi = 0 /\ all_prices = <<>> /\ all_fundamentals = <<>>
    /\ prices_df = <<>> /\ fundamentals_df = <<>>
    /\ xstore = <<>> /\ xlog = <<>> /\ xpc = "idle"
    /\ xrun = 0 /\ xfirst = <<>>
IdlePipeline ==
    /\ pstore = <<>> /\ pprices = <<>> /\ p_indicators_df = <<>>
    /\ p_risk_df = <<>> /\ plog = <<>> /\ ppc = "idle"

InitSignals ==
    /\ sdf = <<OtherRow>>
    /\ sticker = ""
    /\ sout = <<>>
    /\ spc = "build"
    /\ IdleCross /\ IdleRisk /\ IdleIndicators
    /\ IdleExtraction /\ IdlePipeline

\* one more row of AAA in the table, at the earliest or the latest date it
\* does not hold yet (the table need not arrive in date order)
AddRow ==
    /\ spc = "build"
    /\ Len(SelectTicker(sdf, "AAA")) < MaxRows
    /\ LET free == Dates \ DatesOf(sdf, "AAA")
       IN  \E date \in {SetMin(free), SetMax(free)}, sma \in SmaChoices,
              macd \in MacdChoices, rb \in RsiBbChoices :
              sdf' = Append(sdf, Row("AAA", date, sma, macd, rb))
    /\ UNCHANGED <<sticker, sout, spc, cvars, rvars, ivars, xvars, pvars>>

\* signals = generate_signals_for_ticker(ticker, indicators_df)
GenerateSignals ==
    /\ spc = "build"
    /\ \E ticker \in Tickers :
          /\ sticker' = ticker
          /\ sout' = generate_signals_for_ticker(ticker, sdf)
    /\ spc' = "done"
    /\ UNCHANGED <<sdf, cvars, rvars, ivars, xvars, pvars>>

NextSignals == AddRow \/ GenerateSignals

SpecSignals == InitSignals /\ [][NextSignals]_vars

\* the rows of the called ticker with the latest and the latest-but-one date
SRows == {sdf[i] : i \in {j \in DOMAIN sdf : sdf[j].ticker = sticker}}
SLatest == CHOOSE r \in SRows : \A q \in SRows : q.date <= r.date
SPrevious ==
    CHOOSE r \in SRows \ {SLatest} : \A q \in SRows \ {SLatest} : q.date <= r.date
STypes == {sout[i].signal_type : i \in DOMAIN sout}

AnyRuleFires(latest, previous) ==
    \/ GoldenCross(latest, previous) \/ DeathCross(latest, previous)
    \/ RsiOversold(latest) \/ RsiOverbought(latest)
    \/ MacdBullish(latest, previous) \/ MacdBearish(latest, previous)
    \/ BbOversold(latest) \/ BbOverbought(latest)

\* C1: for a ticker with at least 2 rows the returned list is not empty, holds
\* a NEUTRAL/NEUTRAL record exactly when none of the eight rules fired, and
\* then holds nothing else.
C1_NeutralIffNoRuleFired ==
    (spc = "done" /\ Cardinality(SRows) >= 2) =>
        /\ sout # <<>>
        /\ ("NEUTRAL" \in STypes) <=> ~AnyRuleFires(SLatest, SPrevious)
        /\ \A i \in DOMAIN sout :
              (sout[i].signal_type = "NEUTRAL") <=>
              (sout[i].signal_strength = "NEUTRAL")
        /\ ("NEUTRAL" \in STypes) => Len(sout) = 1

\* C1 witness: a call on 2 rows where no rule fired
C1_Witness ==
    /\ spc = "done" /\ Cardinality(SRows) >= 2
    /\ ~AnyRuleFires(SLatest, SPrevious)
    /\ Len(sout) = 1 /\ sout[1].signal_type = "NEUTRAL"

\* C10: fewer than 2 rows give the empty list; exactly 2 rows with no rule
\* condition met give exactly one signal, the NEUTRAL one.
C10_ShortHistoryEmpty ==
    spc = "done" =>
        /\ Cardinality(SRows) < 2 => sout = <<>>
        /\ (Cardinality(SRows) = 2 /\ ~AnyRuleFires(SLatest, SPrevious)) =>
              sout = <<Signal(sticker, SLatest.date, "NEUTRAL", "NEUTRAL")>>

\* C10 witness: a call for a ticker holding exactly one row
C10_Witness ==
    spc = "done" /\ sticker = "AAA" /\ Cardinality(SRows) = 1 /\ sout = <<>>

\* the signal types of an opposite pair are not both in the output
NotBoth(a, b) == ~({a, b} \subseteq STypes)

\* C12: in one output the opposite rules of a pair never both fire (for the
\* Bollinger pair when bb_lower <= bb_upper), no signal type appears twice,
\* and every record carries the date of the ticker's latest row.
C12_OppositeRulesExclusive ==
    spc = "done" =>
        /\ NotBoth("GOLDEN_CROSS", "DEATH_CROSS")
        /\ NotBoth("RSI_OVERSOLD", "RSI_OVERBOUGHT")
        /\ NotBoth("MACD_BULLISH", "MACD_BEARISH")
        /\ (Cardinality(SRows) >= 2 /\ FLe(SLatest.bb_lower, SLatest.bb_upper))
              => NotBoth("BB_OVERSOLD", "BB_OVERBOUGHT")
        /\ \A i, j \in DOMAIN sout :
              sout[i].signal_type = sout[j].signal_type => i = j
        /\ \A i \in DOMAIN sout :
              /\ sout[i].signal_date = SLatest.date
              /\ sout[i].ticker = sticker

\* C12 witness: a call whose output holds one signal of each pair, four in
\* all, dated at the latest of the ticker's two rows
C12_Witness ==
    /\ spc = "done" /\ Cardinality(SRows) = 2 /\ Len(sout) = 4
    /\ STypes = {"GOLDEN_CROSS", "RSI_OVERSOLD", "MACD_BULLISH", "BB_OVERSOLD"}
    /\ FLe(SLatest.bb_lower, SLatest.bb_upper)
    /\ \A i \in DOMAIN sout : sout[i].signal_date = SLatest.date
    /\ SLatest.date > SPrevious.date

-----------------------------------------------------------------------------
(* The detector run at each successive bar of one ticker's history         *)

MaxBars == 4

\* <<sma_50, sma_200>> of a bar: either may be undefined, and the pair passes
\* through below, equal and above
CrossChoices == {<<a, b>> : a \in {NaN, I(1), I(2), I(3)}, b \in {NaN, I(2)}}

InitCross ==
    /\ cdf = <<>> /\ clog = <<>> /\ cpc = "bar"
    /\ IdleSignals /\ IdleRisk /\ IdleIndicators
    /\ IdleExtraction /\ IdlePipeline

\* the next bar's indicator row is appended to the table
NewBar ==
    /\ cpc = "bar"
    /\ Len(cdf) < MaxBars
    /\ \E sma \in CrossChoices :
          cdf' = Append(cdf, Row("AAA", Len(cdf) + 1, sma, <<NaN, NaN>>,
                                 <<NaN, I(2), NaN, NaN>>))
    /\ cpc' = "eval"
    /\ UNCHANGED <<clog, svars, rvars, ivars, xvars, pvars>>

\* generate_signals_for_ticker with the new bar as the latest row
EvaluateBar ==
    /\ cpc = "eval"
    /\ LET signals == generate_signals_for_ticker("AAA", cdf)
       IN  clog' = Append(clog, {signals[i].signal_type : i \in DOMAIN signals})
    /\ cpc' = "bar"
    /\ UNCHANGED <<cdf, svars, rvars, ivars, xvars, pvars>>

NextCross == NewBar \/ EvaluateBar

SpecCross == InitCross /\ [][NextCross]_vars

Above(t) == FGt(cdf[t].sma_50, cdf[t].sma_200)
Below(t) == FLt(cdf[t].sma_50, cdf[t].sma_200)
BothDefined(t) == notna(cdf[t].sma_50) /\ notna(cdf[t].sma_200)

\* C2 as stated: at every bar t >= 2, GOLDEN_CROSS (DEATH_CROSS) fires exactly
\* when sma_50 is strictly above (below) sma_200 at t and was not at t-1,
\* whether bar t-1 held the other ordering, equality or an undefined average.
C2_FiresWhenOrderingFirstHolds ==
    \A t \in 2 .. Len(clog) :
        /\ ("GOLDEN_CROSS" \in clog[t]) <=> (Above(t) /\ ~Above(t - 1))
        /\ ("DEATH_CROSS" \in clog[t]) <=> (Below(t) /\ ~Below(t - 1))

\* C2 amended: at every bar t >= 2, GOLDEN_CROSS (DEATH_CROSS) fires exactly
\* when sma_50 is strictly above (below) sma_200 at t, was not at t-1, and both
\* averages were defined at t-1.
C2_FiresAtDefinedTransition ==
    \A t \in 2 .. Len(clog) :
        /\ ("GOLDEN_CROSS" \in clog[t]) <=>
              (Above(t) /\ BothDefined(t - 1) /\ ~Above(t - 1))
        /\ ("DEATH_CROSS" \in clog[t]) <=>
              (Below(t) /\ BothDefined(t - 1) /\ ~Below(t - 1))

\* C2 witness: a history that goes above, back to equality and above again,
\* with a golden cross at both transitions and none in between
C2_Witness ==
    /\ Len(clog) = 4
    /\ Below(1) /\ Above(2) /\ FEq(cdf[3].sma_50, cdf[3].sma_200) /\ Above(4)
    /\ "GOLDEN_CROSS" \in clog[2] /\ "GOLDEN_CROSS" \notin clog[3]
    /\ "GOLDEN_CROSS" \in clog[4]

-----------------------------------------------------------------------------
(* Risk engine: technical_indicators.py, calculate_risk_metrics            *)

MIN_RETURNS == 30
TRADING_DAYS == 252
RISK_FREE_RATE == Q(45, 1000)

\* Series.dropna()
dropna(s) == SelectSeq(s, notna)

\* the sum of s[lo .. hi], halving the range (exact, so the order of the
\* additions does not matter)
RECURSIVE FSumRange(_, _, _)
FSumRange(s, lo, hi) ==
    IF lo > hi THEN I(0)
    ELSE IF lo = hi THEN s[lo]
    ELSE LET mid == (lo + hi) \div 2
         IN  FAdd(FSumRange(s, lo, mid), FSumRange(s, mid + 1, hi))

FSum(s) == FSumRange(s, 1, Len(s))

RECURSIVE FProdRange(_, _, _)
FProdRange(s, lo, hi) ==
    IF lo > hi THEN I(1)
    ELSE IF lo = hi THEN s[lo]
    ELSE LET mid == (lo + hi) \div 2
         IN  FMul(FProdRange(s, lo, mid), FProdRange(s, mid + 1, hi))

\* Series.mean() of a series without NaN (NaN when it is empty)
mean(s) == FDiv(FSum(s), I(Len(s)))

\* Series.std(): sample standard deviation, NaN for fewer than 2 values
std(s) ==
    LET m  == mean(s)
        sq == [i \in DOMAIN s |-> FMul(FSub(s[i], m), FSub(s[i], m))]
    IN  IF Len(s) <= 1 THEN NaN
        ELSE FSqrt(FDiv(FSum(sq), I(Len(s) - 1)))

\* (1 + stock_returns).cumprod(): the product of the first i factors
cumprod(s) ==
    LET factors == [i \in DOMAIN s |-> FAdd(I(1), s[i])]
    IN  [i \in DOMAIN s |-> FProdRange(factors, 1, i)]

\* the greatest (least) of the values of s[1 .. i] that are not NaN, NaN when
\* there is none
MaxUpTo(s, i) ==
    LET v == {s[j] : j \in 1 .. i} \ {NaN}
    IN  IF v = {} THEN NaN ELSE CHOOSE x \in v : \A y \in v : ~FGt(y, x)

MinUpTo(s, i) ==
    LET v == {s[j] : j \in 1 .. i} \ {NaN}
    IN  IF v = {} THEN NaN ELSE CHOOSE x \in v : \A y \in v : ~FLt(y, x)

\* .expanding().max(): the running maximum, the current point included
expanding_max(s) == [i \in DOMAIN s |-> MaxUpTo(s, i)]

\* Series.min(): the least value that is not NaN, NaN when there is none
min(s) == MinUpTo(s, Len(s))

\* drawdown.min() of (cum_returns - rolling_max) / rolling_max
MaxDrawdown(stock_returns) ==
    LET cum_returns == cumprod(stock_returns)
        rolling_max == expanding_max(cum_returns)
        drawdown == [i \in DOMAIN cum_returns |->
                        FDiv(FSub(cum_returns[i], rolling_max[i]), rolling_max[i])]
    IN  min(drawdown)

\* the values of s in ascending order: s[i] goes to the place after the values
\* below it and the equal values before it
SortAsc(s) ==
    LET place == [i \in DOMAIN s |->
                    1 + Cardinality({j \in DOMAIN s : FLt(s[j], s[i])})
                      + Cardinality({j \in 1 .. i - 1 : s[j] = s[i]})]
    IN  [k \in DOMAIN s |-> s[CHOOSE i \in DOMAIN s : place[i] = k]]

\* Series.quantile(qn/qd): linear interpolation between the order statistics
\* around position (n - 1) * q of the sorted values
quantile(s, qn, qd) ==
    IF s = <<>> THEN NaN
    ELSE LET x    == SortAsc(s)
             pos  == (Len(s) - 1) * qn
             lo   == pos \div qd
             frac == Q(pos % qd, qd)
         IN  IF frac.n = 0 THEN x[lo + 1]
             ELSE FAdd(x[lo + 1], FMul(FSub(x[lo + 2], x[lo + 1]), frac))

\* a plausible slip: the 95th percentile instead of the 5th
Var95Upper(stock_returns) == quantile(stock_returns, 95, 100)

\* var_95 = stock_returns.quantile(0.05)
Var95(stock_returns) == quantile(stock_returns, 5, 100)

\* a plausible slip: the division is not guarded
UnguardedRatio(excess_return, vol) ==
    IF vol.k = "sqrt" THEN OverSqrt(excess_return, vol)
    ELSE FDiv(excess_return, vol)

\* excess_return / vol if vol > 0 else 0
GuardedRatio(excess_return, vol) ==
    IF IsPositive(vol) THEN OverSqrt(excess_return, vol) ELSE I(0)

\* a plausible slip: the comparison includes the threshold
NotEnoughDataInclusive(stock_returns) == Len(stock_returns) <= MIN_RETURNS

\* if len(stock_returns) < 30: continue
NotEnoughData(stock_returns) == Len(stock_returns) < MIN_RETURNS

\* the record appended for one ticker
RiskRecord(ticker, stock_returns) ==
    LET ann_return     == FMul(mean(stock_returns), I(TRADING_DAYS))
        ann_volatility == TimesSqrt(std(stock_returns), TRADING_DAYS)
        excess_return  == FSub(ann_return, RISK_FREE_RATE)
        sharpe         == GuardedRatio(excess_return, ann_volatility)
        max_drawdown   == MaxDrawdown(stock_returns)
        var_95         == Var95(stock_returns)
        downside_returns == SelectSeq(stock_returns, LAMBDA x : FLt(x, I(0)))
        downside_std   == TimesSqrt(std(downside_returns), TRADING_DAYS)
        sortino        == GuardedRatio(excess_return, downside_std)
    IN  [ticker |-> ticker,
         sharpe_ratio |-> round(sharpe, 4),
         sortino_ratio |-> round(sortino, 4),
         max_drawdown |-> round(max_drawdown, 6),
         var_95 |-> round(var_95, 6),
         annualized_return |-> round(ann_return, 6),
         annualized_volatility |-> round(ann_volatility, 6)]

\* df['ticker'].unique(): the tickers in order of first appearance
unique(s) ==
    LET firsts == {i \in DOMAIN s : \A j \in 1 .. i - 1 : s[j] # s[i]}
    IN  [k \in 1 .. Cardinality(firsts) |->
            s[CHOOSE i \in firsts : Cardinality({j \in firsts : j <= i}) = k]]

TickerColumn(df) == [i \in DOMAIN df |-> df[i].ticker]

\* df[df['ticker'] == ticker]['daily_return'].dropna()
StockReturns(df, ticker) ==
    LET rows == SelectTicker(df, ticker)
    IN  dropna([i \in DOMAIN rows |-> rows[i].daily_return])

RECURSIVE RiskLoop(_, _)
RiskLoop(df, tickers) ==
    IF tickers = <<>> THEN <<>>
    ELSE LET stock_returns == StockReturns(df, Head(tickers))
         IN  IF NotEnoughData(stock_returns)
             THEN RiskLoop(df, Tail(tickers))
             ELSE <<RiskRecord(Head(tickers), stock_returns)>>
                  \o RiskLoop(df, Tail(tickers))

calculate_risk_metrics(df) == RiskLoop(df, unique(TickerColumn(df)))

-----------------------------------------------------------------------------
(* Inputs of the risk engine. Returns lie on a coarse grid (-2, -1, -1/2, 0, *)
(* 1) so that 30-term sums and products stay exact and small.              *)

MaxHead == 3
MaxNaN == 1

HeadReturns == {I(-1), Q(-1, 2), I(1)}
PadReturns == {I(-2), I(-1), I(0), I(1)}

Repeat(v, n) == [i \in 1 .. n |-> v]

Heads == UNION {[1 .. k -> HeadReturns] : k \in 0 .. MaxHead}

\* the daily_return column of one ticker: leading undefined values (the first
\* bar has no return), a free head, then one value repeated up to 29 or 30
\* defined returns
ReturnColumns ==
    {Repeat(NaN, u) \o h \o Repeat(v, total - Len(h)) :
        u \in 0 .. MaxNaN, h \in Heads, v \in PadReturns,
        total \in {MIN_RETURNS - 1, MIN_RETURNS}}

\* the columns of the second ticker: 29 or 30 rows of a flat price
OtherColumns == {Repeat(I(0), MIN_RETURNS - 1), Repeat(I(0), MIN_RETURNS)}

Frame(ticker, column) ==
    [i \in DOMAIN column |-> [ticker |-> ticker, daily_return |-> column[i]]]

InitRisk ==
    /\ rdf \in {Frame("AAA", a) \o Frame("BBB", b) :
                   a \in ReturnColumns, b \in OtherColumns}
    /\ rout = <<>>
    /\ rpc = "ready"
    /\ IdleSignals /\ IdleCross /\ IdleIndicators
    /\ IdleExtraction /\ IdlePipeline

\* risk_df = calculate_risk_metrics(indicators_df)
CalculateRisk ==
    /\ rpc = "ready"
    /\ rout' = calculate_risk_metrics(rdf)
    /\ rpc' = "done"
    /\ UNCHANGED <<rdf, svars, cvars, ivars, xvars, pvars>>

NextRisk == CalculateRisk

SpecRisk == InitRisk /\ [][NextRisk]_vars

\* the defined returns of a ticker, read off the frame row by row
ValidRows(t) ==
    {i \in DOMAIN rdf : rdf[i].ticker = t /\ ~IsNaN(rdf[i].daily_return)}
RTickers == {rdf[i].ticker : i \in DOMAIN rdf}
RecordsOf(t) == {i \in DOMAIN rout : rout[i].ticker = t}
Negatives(t) == {i \in ValidRows(t) : Sign(rdf[i].daily_return) < 0}

\* C5: a ticker gets a record iff it has at least 30 defined returns, and
\* never more than one; no record belongs to a ticker outside the frame.
C5_RecordIffThirtyReturns ==
    rpc = "done" =>
        /\ \A t \in RTickers :
              Cardinality(RecordsOf(t)) =
                  IF Cardinality(ValidRows(t)) >= 30 THEN 1 ELSE 0
        /\ \A i \in DOMAIN rout : rout[i].ticker \in RTickers

\* C5 witness: one ticker with 30 rows of which 29 are defined and no record,
\* the other with exactly 30 defined returns and its record
C5_Witness ==
    /\ rpc = "done"
    /\ Len(SelectTicker(rdf, "AAA")) = 30
    /\ Cardinality(ValidRows("AAA")) = 29 /\ RecordsOf("AAA") = {}
    /\ Cardinality(ValidRows("BBB")) = 30 /\ Cardinality(RecordsOf("BBB")) = 1

\* C7 as stated: whenever an accepted series holds a negative return, its
\* var_95 is <= 0.
C7_Var95NonPositiveWithAnyLoss ==
    rpc = "done" =>
        \A i \in DOMAIN rout :
            Negatives(rout[i].ticker) # {} => FLe(rout[i].var_95, I(0))

\* C7 amended: var_95 is <= 0 whenever at least floor(0.05 * (n - 1)) + 2 of the
\* n accepted returns are negative (3 of 30).
C7_Var95NonPositiveWithEnoughLosses ==
    rpc = "done" =>
        \A i \in DOMAIN rout :
            LET n == Cardinality(ValidRows(rout[i].ticker))
            IN  Cardinality(Negatives(rout[i].ticker)) >= ((n - 1) * 5) \div 100 + 2
                    => FLe(rout[i].var_95, I(0))

\* C7 witness: exactly 3 negative returns among 30, and var_95 < 0
C7_Witness ==
    /\ rpc = "done"
    /\ \E i \in DOMAIN rout :
          /\ rout[i].ticker = "AAA"
          /\ Cardinality(ValidRows("AAA")) = 30
          /\ Cardinality(Negatives("AAA")) = 3
          /\ \E r \in ValidRows("AAA") : Sign(rdf[r].daily_return) > 0
          /\ FLt(rout[i].var_95, I(0))

\* C8: every record's max_drawdown is a defined value <= 0, also for series
\* with returns <= -1.
C8_MaxDrawdownDefinedNonPositive ==
    rpc = "done" =>
        \A i \in DOMAIN rout :
            IsFinite(rout[i].max_drawdown) /\ FLe(rout[i].max_drawdown, I(0))

AllEqual(rows) == \A i, j \in rows : rdf[i].daily_return = rdf[j].daily_return

\* C9: sharpe_ratio is exactly 0 when the volatility is 0 (all returns equal),
\* and sortino_ratio is exactly 0 when the deviation of the negative returns is
\* 0 or undefined (they are all equal, or there is at most one).
C9_ZeroDenominatorGivesZero ==
    rpc = "done" =>
        \A i \in DOMAIN rout :
            /\ AllEqual(ValidRows(rout[i].ticker)) =>
                  rout[i].sharpe_ratio = I(0)
            /\ AllEqual(Negatives(rout[i].ticker)) =>
                  rout[i].sortino_ratio = I(0)

\* C9 witness: one record of a flat series (volatility 0, no negative return)
\* and one of a series with a single negative return and a non-zero Sharpe
C9_Witness ==
    /\ rpc = "done"
    /\ \E i, j \in DOMAIN rout :
          /\ rout[i].ticker = "BBB" /\ AllEqual(ValidRows("BBB"))
          /\ rout[i].sharpe_ratio = I(0) /\ rout[i].sortino_ratio = I(0)
          /\ rout[j].ticker = "AAA" /\ Cardinality(Negatives("AAA")) = 1
          /\ rout[j].sharpe_ratio # I(0) /\ rout[j].sortino_ratio = I(0)

-----------------------------------------------------------------------------
(* Indicator engine: technical_indicators.py, _add_indicators. The columns *)
(* modelled are the moving averages, rsi_14 and daily_return; macd,        *)
(* macd_signal, the Bollinger bands and volatility_30d are left out.       *)

RSI_WINDOW == 14
SMA_SHORT == 20
SMA_MID == 50
SMA_LONG == 200

\* Series.diff(): NaN at the first bar
diff(s) == [i \in DOMAIN s |-> IF i = 1 THEN NaN ELSE FSub(s[i], s[i - 1])]

\* Series.pct_change(): NaN at the first bar
pct_change(s) ==
    [i \in DOMAIN s |-> IF i = 1 THEN NaN
                        ELSE FDiv(FSub(s[i], s[i - 1]), s[i - 1])]

\* Series.rolling(window).mean(): NaN until the window holds `window` values
\* that are not NaN
rolling_mean(s, window) ==
    [i \in DOMAIN s |->
        IF i < window \/ \E j \in i - window + 1 .. i : IsNaN(s[j]) THEN NaN
        ELSE FDiv(FSumRange(s, i - window + 1, i), I(window))]

\* delta.where(delta > 0, 0): NaN fails the comparison and becomes 0
Gains(delta) ==
    [i \in DOMAIN delta |-> IF FGt(delta[i], I(0)) THEN delta[i] ELSE I(0)]

\* -delta.where(delta < 0, 0)
Losses(delta) ==
    [i \in DOMAIN delta |-> IF FLt(delta[i], I(0)) THEN FNeg(delta[i]) ELSE I(0)]

\* 100 - (100 / (1 + rs)) with rs = gain / loss
Rsi(close) ==
    LET delta == diff(close)
        gain  == rolling_mean(Gains(delta), RSI_WINDOW)
        loss  == rolling_mean(Losses(delta), RSI_WINDOW)
    IN  [i \in DOMAIN close |->
            LET rs == FDiv(gain[i], loss[i])
            IN  FSub(I(100), FDiv(I(100), FAdd(I(1), rs)))]

_add_indicators(close) ==
    LET sma_20  == rolling_mean(close, SMA_SHORT)
        sma_50  == rolling_mean(close, SMA_MID)
        sma_200 == rolling_mean(close, SMA_LONG)
        rsi_14  == Rsi(close)
        daily_return == pct_change(close)
    IN  [i \in DOMAIN close |->
            [close |-> close[i], sma_20 |-> sma_20[i], sma_50 |-> sma_50[i],
             sma_200 |-> sma_200[i], rsi_14 |-> rsi_14[i],
             daily_return |-> daily_return[i]]]

-----------------------------------------------------------------------------
(* Inputs of the indicator engine: a close column that starts at StartClose *)
(* and moves by -1, 0 or +1 per bar: a free head, then one step repeated.   *)

MaxDeltaHead == 2
MaxCloseBars == 16
StartClose == 20

Steps == {-1, 0, 1}

StepHeads == UNION {[1 .. k -> Steps] : k \in 0 .. MaxDeltaHead}

RECURSIVE IntSum(_, _)
IntSum(s, i) == IF i = 0 THEN 0 ELSE s[i] + IntSum(s, i - 1)

CloseColumn(steps) ==
    [i \in 1 .. Len(steps) + 1 |-> I(StartClose + IntSum(steps, i - 1))]

CloseColumns ==
    {CloseColumn(h \o Repeat(v, bars - 1 - Len(h))) :
        h \in StepHeads, v \in Steps, bars \in RSI_WINDOW - 1 .. MaxCloseBars}

InitIndicators ==
    /\ iclose \in CloseColumns
    /\ iout = <<>>
    /\ ipc = "ready"
    /\ IdleSignals /\ IdleCross /\ IdleRisk
    /\ IdleExtraction /\ IdlePipeline

\* stock_df = _add_indicators(stock_df)
AddIndicators ==
    /\ ipc = "ready"
    /\ iout' = _add_indicators(iclose)
    /\ ipc' = "done"
    /\ UNCHANGED <<iclose, svars, cvars, rvars, xvars, pvars>>

NextIndicators == AddIndicators

SpecIndicators == InitIndicators /\ [][NextIndicators]_vars

\* no close in the 14 bars up to bar i is below the close before it
NoLossInWindow(i) ==
    \A j \in i - 13 .. i : j >= 2 => ~FLt(iclose[j], iclose[j - 1])

\* C6: at every bar whose 14-bar rolling average loss is 0 (no falling close
\* among the trailing 14 changes, a constant close included), rsi_14 is 100.
C6_RsiSaturatesWithoutLoss ==
    ipc = "done" =>
        \A i \in DOMAIN iout :
            (i >= 14 /\ NoLossInWindow(i)) => iout[i].rsi_14 = I(100)

-----------------------------------------------------------------------------
(* Data store: database.py. A table is absent or holds rows; a write or a  *)
(* query meets a database that answers ("up") or raises SQLAlchemyError     *)
(* ("down").                                                                *)

None == [isNone |-> TRUE, df |-> <<>>]
Some(df) == [isNone |-> FALSE, df |-> df]

Absent == [exists |-> FALSE, rows |-> <<>>]
Table(rows) == [exists |-> TRUE, rows |-> rows]

DbOutcomes == {"up", "down"}

\* save_dataframe(df, table_name, if_exists='replace'): the table becomes df
\* and True is returned; on SQLAlchemyError the error is printed, the store is
\* as it was and False is returned
save_dataframe(store, df, table_name, db) ==
    IF db = "up"
    THEN [ok |-> TRUE, store |-> [store EXCEPT ![table_name] = Table(df)]]
    ELSE [ok |-> FALSE, store |-> store]

\* pd.concat(frames, ignore_index=True)
RECURSIVE concat(_)
concat(frames) ==
    IF frames = <<>> THEN <<>> ELSE Head(frames) \o concat(Tail(frames))

-----------------------------------------------------------------------------
(* Extraction: data_extractor.py                                           *)

NumTickers == 3
MaxClock == 2

\* the tickers argument of run_extraction
tickers == [i \in 1 .. NumTickers |-> i]

PriceFetches == {"rows", "empty", "raises"}
InfoFetches == {"info", "raises"}

\* download_stock_prices: None when the history is empty or anything raises
download_stock_prices(ticker, fetch) ==
    IF fetch = "raises" THEN None
    ELSE IF fetch = "empty" THEN None
    ELSE Some(<<[ticker |-> ticker, date |-> 1]>>)

\* download_fundamentals: a one-row frame stamped with datetime.now(), None
\* when anything raises
download_fundamentals(ticker, fetch, now) ==
    IF fetch = "raises" THEN None
    ELSE Some(<<[ticker |-> ticker, last_updated |-> now]>>)

Unbound == [bound |-> FALSE, df |-> <<>>]
Bound(df) == [bound |-> TRUE, df |-> df]

Event(ev, what, ticker) == [ev |-> ev, what |-> what, ticker |-> ticker]

\* rows left in a table by an earlier run
StalePrices == <<[ticker |-> 1, date |-> 0]>>
StaleFundamentals == <<[ticker |-> 1, last_updated |-> 0]>>

\* nothing kept yet of a first run
NoRun == [store |-> <<>>, log |-> <<>>]

InitExtraction ==
    /\ xnow \in 1 .. MaxClock
    /\ xi = 1
    /\ all_prices = <<>>
    /\ all_fundamentals = <<>>
    /\ prices_df = Unbound
    /\ fundamentals_df = Unbound
    /\ xstore \in [stock_prices : {Absent, Table(StalePrices)},
                   stock_fundamentals : {Absent, Table(StaleFundamentals)}]
    /\ xlog = <<>>
    /\ xpc = "loop"
    /\ xrun = 1
    /\ xfirst = NoRun
    /\ IdleSignals /\ IdleCross /\ IdleRisk /\ IdleIndicators /\ IdlePipeline

\* one pass of the loop over tickers
ExtractTicker ==
    /\ xpc = "loop"
    /\ \E fp \in PriceFetches, ff \in InfoFetches :
          LET ticker == tickers[xi]
              prices == download_stock_prices(ticker, fp)
              fundamentals == download_fundamentals(ticker, ff, xnow)
          IN  /\ all_prices' = IF ~prices.isNone
                               THEN Append(all_prices, prices.df)
                               ELSE all_prices
              /\ all_fundamentals' = IF ~fundamentals.isNone
                                     THEN Append(all_fundamentals, fundamentals.df)
                                     ELSE all_fundamentals
              /\ xlog' = xlog \o <<Event("prices", fp, ticker),
                                   Event("fundamentals", ff, ticker)>>
    /\ xi' = xi + 1
    /\ xpc' = IF xi = Len(tickers) THEN "save_prices" ELSE "loop"
    /\ UNCHANGED <<xnow, prices_df, fundamentals_df, xstore>>
    /\ UNCHANGED <<xrun, xfirst>>
    /\ UNCHANGED <<svars, cvars, rvars, ivars, pvars>>

\* if all_prices: prices_df = pd.concat(...); save_dataframe(prices_df, ...)
SavePrices ==
    /\ xpc = "save_prices"
    /\ IF all_prices # <<>>
       THEN \E db \in DbOutcomes :
               LET df == concat(all_prices)
                   saved == save_dataframe(xstore, df, "stock_prices", db)
               IN  /\ prices_df' = Bound(df)
                   /\ xstore' = saved.store
                   /\ xlog' = Append(xlog,
                         Event(IF saved.ok THEN "saved" ELSE "save_failed",
                               "stock_prices", 0))
       ELSE UNCHANGED <<prices_df, xstore, xlog>>
    /\ xpc' = "save_fundamentals"
    /\ UNCHANGED <<xnow, xi, all_prices, all_fundamentals, fundamentals_df>>
    /\ UNCHANGED <<xrun, xfirst>>
    /\ UNCHANGED <<svars, cvars, rvars, ivars, pvars>>

\* if all_fundamentals: fundamentals_df = pd.concat(...); save_dataframe(...)
SaveFundamentals ==
    /\ xpc = "save_fundamentals"
    /\ IF all_fundamentals # <<>>
       THEN \E db \in DbOutcomes :
               LET df == concat(all_fundamentals)
                   saved == save_dataframe(xstore, df, "stock_fundamentals", db)
               IN  /\ fundamentals_df' = Bound(df)
                   /\ xstore' = saved.store
                   /\ xlog' = Append(xlog,
                         Event(IF saved.ok THEN "saved" ELSE "save_failed",
                               "stock_fundamentals", 0))
       ELSE UNCHANGED <<fundamentals_df, xstore, xlog>>
    /\ xpc' = "summary"
    /\ UNCHANGED <<xnow, xi, all_prices, all_fundamentals, prices_df>>
    /\ UNCHANGED <<xrun, xfirst>>
    /\ UNCHANGED <<svars, cvars, rvars, ivars, pvars>>

\* the closing prints read len(prices_df) and len(fundamentals_df): a local
\* that was never assigned raises UnboundLocalError; otherwise both are
\* returned
ExtractionSummary ==
    /\ xpc = "summary"
    /\ IF prices_df.bound /\ fundamentals_df.bound
       THEN /\ xlog' = Append(xlog, Event("summary", "complete", 0))
            /\ xpc' = "returned"
       ELSE /\ xlog' = Append(xlog, Event("raise", "UnboundLocalError", 0))
            /\ xpc' = "raised"
    /\ UNCHANGED <<xnow, xi, all_prices, all_fundamentals, prices_df,
                   fundamentals_df, xstore>>
    /\ UNCHANGED <<xrun, xfirst>>
    /\ UNCHANGED <<svars, cvars, rvars, ivars, pvars>>

NextExtraction ==
    \/ ExtractTicker
    \/ SavePrices
    \/ SaveFundamentals
    \/ ExtractionSummary

SpecExtraction == InitExtraction /\ [][NextExtraction]_vars

\* what the run logged about ticker t's fetch of `kind`
Fetched(kind, t) ==
    \E i \in DOMAIN xlog :
        /\ xlog[i].ev = kind /\ xlog[i].ticker = t
        /\ xlog[i].what \in {"rows", "info"}

Visited(t) == \E i \in DOMAIN xlog : xlog[i].ev = "prices" /\ xlog[i].ticker = t

WriteFailed(table) ==
    \E i \in DOMAIN xlog : xlog[i].ev = "save_failed" /\ xlog[i].what = table

InTable(table, t) ==
    /\ xstore[table].exists
    /\ \E i \in DOMAIN xstore[table].rows :
          /\ xstore[table].rows[i].ticker = t
          /\ xstore[table].rows[i] \notin {StalePrices[1], StaleFundamentals[1]}

\* C3: whichever tickers fail to fetch (all of them included), once the loop
\* is over every ticker was visited, the run never ends by raising, and the
\* rows of each ticker that was fetched are in the store unless that write
\* failed.
C3_BatchNeverAborted ==
    /\ xpc # "raised"
    /\ xpc \in {"save_prices", "save_fundamentals", "summary", "returned"} =>
          \A t \in 1 .. NumTickers : Visited(tickers[t])
    /\ xpc = "returned" =>
          \A t \in 1 .. NumTickers :
              /\ (Fetched("prices", tickers[t]) /\ ~WriteFailed("stock_prices"))
                    => InTable("stock_prices", tickers[t])
              /\ (Fetched("fundamentals", tickers[t])
                     /\ ~WriteFailed("stock_fundamentals"))
                    => InTable("stock_fundamentals", tickers[t])

-----------------------------------------------------------------------------
(* Indicators pipeline: technical_indicators.py, run_indicators_pipeline   *)

\* ORDER BY ticker, date and .sort_values(['ticker', 'date'])
sort_ticker_date(df) ==
    LET Before(a, b) == \/ a.ticker < b.ticker
                        \/ a.ticker = b.ticker /\ a.date < b.date
        place == [i \in DOMAIN df |->
                    1 + Cardinality({j \in DOMAIN df : Before(df[j], df[i])})
                      + Cardinality({j \in 1 .. i - 1 :
                                        /\ ~Before(df[j], df[i])
                                        /\ ~Before(df[i], df[j])})]
    IN  [k \in DOMAIN df |-> df[CHOOSE i \in DOMAIN df : place[i] = k]]

\* query_to_df("SELECT * FROM <table> ORDER BY ticker, date"): None on
\* SQLAlchemyError, which a missing table raises too
query_to_df(store, table_name, db) ==
    IF db = "down" \/ ~store[table_name].exists THEN None
    ELSE Some(sort_ticker_date(store[table_name].rows))

\* the loop of calculate_all_indicators: each ticker's rows with its
\* indicator columns added
RECURSIVE IndicatorsLoop(_, _)
IndicatorsLoop(df, names) ==
    IF names = <<>> THEN <<>>
    ELSE LET stock_df == SelectTicker(df, Head(names))
             added == _add_indicators([i \in DOMAIN stock_df |-> stock_df[i].close])
         IN  [i \in DOMAIN stock_df |->
                 [ticker |-> stock_df[i].ticker, date |-> stock_df[i].date]
                     @@ added[i]]
             \o IndicatorsLoop(df, Tail(names))

calculate_all_indicators(df) ==
    LET sorted == sort_ticker_date(df)
    IN  IndicatorsLoop(sorted, unique(TickerColumn(sorted)))

\* indicators_df[cols]: the columns of the technical_indicators table
SavedColumns(df) ==
    [i \in DOMAIN df |->
        [ticker |-> df[i].ticker, date |-> df[i].date,
         sma_20 |-> df[i].sma_20, sma_50 |-> df[i].sma_50,
         sma_200 |-> df[i].sma_200, rsi_14 |-> df[i].rsi_14,
         daily_return |-> df[i].daily_return]]

-----------------------------------------------------------------------------
(* Inputs of the pipeline: the stock_prices table. Each ticker's closes are *)
(* a short free head followed by a flat stretch, 30 or 31 bars in all, so   *)
(* that a ticker has 29 or 30 returns.                                      *)

MaxPriceHead == 1
FlatClose == 2

HeadCloses == {1, 4}

PriceHeads == UNION {[1 .. k -> HeadCloses] : k \in 0 .. MaxPriceHead}

PriceRows(ticker, closes) ==
    [i \in DOMAIN closes |-> [ticker |-> ticker, date |-> i, close |-> I(closes[i])]]

FirstTickerRows ==
    {PriceRows(1, h \o Repeat(FlatClose, bars - Len(h))) :
        h \in PriceHeads, bars \in {MIN_RETURNS, MIN_RETURNS + 1}}

PriceTables ==
    {Absent, Table(<<>>)}
      \cup {Table(a) : a \in FirstTickerRows}
      \cup {Table(a \o PriceRows(2, Repeat(FlatClose, MIN_RETURNS + 1))) :
               a \in FirstTickerRows}
      \cup {Table(PriceRows(2, Repeat(FlatClose, MIN_RETURNS + 1)) \o a) :
               a \in FirstTickerRows}

InitPipeline ==
    /\ pstore \in [stock_prices : PriceTables,
                   technical_indicators : {Absent},
                   risk_metrics : {Absent}]
    /\ pprices = <<>>
    /\ p_indicators_df = <<>>
    /\ p_risk_df = <<>>
    /\ plog = <<>>
    /\ ppc = "load"
    /\ IdleSignals /\ IdleCross /\ IdleRisk /\ IdleIndicators /\ IdleExtraction

\* prices_df = query_to_df(...); nothing loaded: return None, None
PipelineLoad ==
    /\ ppc = "load"
    /\ \E db \in DbOutcomes :
          LET loaded == query_to_df(pstore, "stock_prices", db)
          IN  IF loaded.isNone \/ Len(loaded.df) = 0
              THEN /\ plog' = Append(plog, Event("return", "no price data", 0))
                   /\ ppc' = "returned_none"
                   /\ UNCHANGED pprices
              ELSE /\ plog' = Append(plog, Event("loaded", "stock_prices", 0))
                   /\ ppc' = "indicators"
                   /\ pprices' = loaded.df
    /\ UNCHANGED <<pstore, p_indicators_df, p_risk_df>>
    /\ UNCHANGED <<svars, cvars, rvars, ivars, xvars>>

\* indicators_df = calculate_all_indicators(prices_df);
\* save_dataframe(indicators_df[cols], 'technical_indicators', 'replace')
PipelineIndicators ==
    /\ ppc = "indicators"
    /\ \E db \in DbOutcomes :
          LET df == calculate_all_indicators(pprices)
              saved == save_dataframe(pstore, SavedColumns(df),
                                      "technical_indicators", db)
          IN  /\ p_indicators_df' = df
              /\ pstore' = saved.store
              /\ plog' = plog \o
                    <<Event("computed", "technical_indicators", 0),
                      Event(IF saved.ok THEN "saved" ELSE "save_failed",
                            "technical_indicators", 0)>>
    /\ ppc' = "risk"
    /\ UNCHANGED <<pprices, p_risk_df>>
    /\ UNCHANGED <<svars, cvars, rvars, ivars, xvars>>

\* risk_df = calculate_risk_metrics(indicators_df);
\* save_dataframe(risk_df, 'risk_metrics', 'replace')
PipelineRisk ==
    /\ ppc = "risk"
    /\ \E db \in DbOutcomes :
          LET df == calculate_risk_metrics(p_indicators_df)
              saved == save_dataframe(pstore, df, "risk_metrics", db)
          IN  /\ p_risk_df' = df
              /\ pstore' = saved.store
              /\ plog' = plog \o
                    <<Event("computed", "risk_metrics", 0),
                      Event(IF saved.ok THEN "saved" ELSE "save_failed",
                            "risk_metrics", 0)>>
    /\ ppc' = "summary"
    /\ UNCHANGED <<pprices, p_indicators_df>>
    /\ UNCHANGED <<svars, cvars, rvars, ivars, xvars>>

\* the summary prints "rows saved" and the top 5 by Sharpe ratio, then the
\* frames are returned; risk_df.nlargest(5, 'sharpe_ratio') raises KeyError
\* on a frame built from no records, which has no columns
PipelineSummary ==
    /\ ppc = "summary"
    /\ IF p_risk_df = <<>>
       THEN /\ plog' = plog \o <<Event("summary", "rows saved", 0),
                                 Event("raise", "KeyError", 0)>>
            /\ ppc' = "raised"
       ELSE /\ plog' = Append(plog, Event("summary", "rows saved", 0))
            /\ ppc' = "returned"
    /\ UNCHANGED <<pstore, pprices, p_indicators_df, p_risk_df>>
    /\ UNCHANGED <<svars, cvars, rvars, ivars, xvars>>

NextPipeline ==
    \/ PipelineLoad
    \/ PipelineIndicators
    \/ PipelineRisk
    \/ PipelineSummary

SpecPipeline == InitPipeline /\ [][NextPipeline]_vars

\* C4: once a table write has failed, the run does nothing more: no later
\* computation, no later write, no summary.
C4_RunStopsAtFailedWrite ==
    \A i \in DOMAIN plog : plog[i].ev = "save_failed" => i = Len(plog)

-----------------------------------------------------------------------------
(* Repeated runs of the extraction on the same input: data_extractor.py is *)
(* started again after a run has ended, the data source answers each fetch  *)
(* as it did in the first run, and the clock has moved on.                  *)

MaxRuns == 2

RunEnded == xpc \in {"returned", "raised"}

\* prices, fundamentals = run_extraction(), once more
RunAgain ==
    /\ RunEnded
    /\ xrun < MaxRuns
    /\ xnow < MaxClock
    /\ xnow' \in xnow + 1 .. MaxClock
    /\ xrun' = xrun + 1
    /\ xfirst' = IF xrun = 1 THEN [store |-> xstore, log |-> xlog] ELSE xfirst
    /\ xi' = 1
    /\ all_prices' = <<>>
    /\ all_fundamentals' = <<>>
    /\ prices_df' = Unbound
    /\ fundamentals_df' = Unbound
    /\ xlog' = <<>>
    /\ xpc' = "loop"
    /\ UNCHANGED xstore
    /\ UNCHANGED <<svars, cvars, rvars, ivars, pvars>>

\* one pass of the loop; in a later run each fetch ends as it did in the
\* first run
ExtractIdenticalInput ==
    /\ ExtractTicker
    /\ xrun > 1 => \A i \in DOMAIN xlog' : xlog'[i] = xfirst.log[i]

NextRepeat ==
    \/ ExtractIdenticalInput
    \/ SavePrices
    \/ SaveFundamentals
    \/ ExtractionSummary
    \/ RunAgain

SpecRepeat == InitExtraction /\ [][NextRepeat]_vars

NoWriteFailed(log) == \A i \in DOMAIN log : log[i].ev # "save_failed"

\* C11: when run_extraction has been run again on the same input and no
\* write failed in either run, stock_prices and stock_fundamentals hold
\* exactly what the first run left in them.
C11_RerunLeavesTablesEqual ==
    (xrun > 1 /\ RunEnded /\ NoWriteFailed(xfirst.log) /\ NoWriteFailed(xlog))
        => xstore = xfirst.store

====
